---- MODULE Spec2Model ----
(***************************************************************************)
(* A model of the request and file lifecycle of the SimpleTTS backend      *)
(* (src/backend/main.py with auth.py, config.py, database.py, models.py):  *)
(* upload -> encoding normalisation -> synthesis (single and batch) ->     *)
(* output registration -> deletion -> scheduled expiry.                    *)
(*                                                                         *)
(* Reading conventions.                                                    *)
(*  - Strings of the program (ids, file names, path parameters) are        *)
(*    sequences of tokens, so that prefix globs (`<id>*`, `<id>_utf8_*`)   *)
(*    are computed as the code computes them.                              *)
(*  - Sizes are scaled: chunk_size < max_text_length < max_file_size keep  *)
(*    the order they have in the source (8192 < 10000 < 10 MiB); one       *)
(*    character stands for one byte.                                       *)
(*  - The committed tables of the SQLite store are file_uploads,           *)
(*    tts_generations and batch_processes.  Objects added to a request's   *)
(*    Session and not committed live in the request (bp.pending) and are   *)
(*    lost when get_db closes the session.                                 *)
(*  - A handler runs atomically from one await that reaches the event loop *)
(*    to the next; the batch handler is cut at its awaits.                 *)
(*  - backend/main.py uses the names `re` and `List` without importing     *)
(*    them.  The module cannot be loaded at all without `List`; the model  *)
(*    describes the program with both names bound to the standard modules, *)
(*    which is the program its tests (tests/test_api.py) exercise.         *)
(***************************************************************************)
EXTENDS Integers, Sequences, FiniteSets, TLC

(***************************************************************************)
(* Bounds of the model.                                                    *)
(***************************************************************************)
IdLen == 2
MaxUploads == 2
MaxOutputs == 3
MaxBatches == 1
MaxBatchLen == 3
MaxTime == 2

(***************************************************************************)
(* Settings (config.py), scaled.                                           *)
(***************************************************************************)
max_file_size == 5
max_text_length == 4
chunk_size == 3
max_file_age == 1
upload_rate_limit == 2
tts_rate_limit == 2
batch_rate_limit == 1

auth_username == "admin"
auth_password == "admin123"

(***************************************************************************)
(* Value spaces.                                                           *)
(***************************************************************************)
HexChars == {"a", "b"}
\* The output ids, in the order uuid4 hands them out ("c..c1", "c..c2", ...).
Digit(n) == <<"1", "2", "3", "4", "5", "6", "7", "8", "9">>[n]
OutputId(n) == [i \in 1..IdLen |-> IF i = IdLen THEN Digit(n) ELSE "c"]
OutputIds == { OutputId(n) : n \in 1..MaxOutputs }

NoId == << >>
NoneLabel == "None"

Min(a, b) == IF a < b THEN a ELSE b

IsPrefix(p, s) == Len(p) <= Len(s) /\ SubSeq(s, 1, Len(p)) = p

Restrict(f, S) == [x \in S |-> f[x]]

\* Characters a sanitized name keeps: \w, '-', '_', '.'
NameTokens == {"x", "y", "utf8", "_", "-", ".txt", ".exe", ".TXT", "a", "b", "uploaded_file",
               "..", "eacute", "text_to_speech"}

\* Mutant of Sanitize: the path separator is kept.
SanitizeKeepingSlash(name) ==
    [i \in 1..Len(name) |-> IF name[i] \in NameTokens \cup {"/"} THEN name[i] ELSE "_"]

\* re.sub(r'[^\w\-_\.]', '_', name)
Sanitize(name) == [i \in 1..Len(name) |-> IF name[i] \in NameTokens THEN name[i] ELSE "_"]

(***************************************************************************)
(* Request inputs.                                                         *)
(***************************************************************************)
\* What a request carries besides its body: the Authorization header and the
\* address of the peer (request.client.host).
Hosts == {"10.0.0.1", "10.0.0.2"}
NoCredentials == [present |-> FALSE, username |-> "", password |-> "", host |-> "10.0.0.1"]
Credentials(u, p) == [present |-> TRUE, username |-> u, password |-> p, host |-> "10.0.0.1"]
From(host, cred) == [cred EXCEPT !.host = host]
GoodCredentials == Credentials("admin", "admin123")
CredInputs == { NoCredentials, GoodCredentials,
                Credentials("eve", "admin123"), Credentials("admin", "guess") }

\* An uploaded document: its length and what its bytes are.
\*   "utf8"   valid UTF-8 text
\*   "legacy" 8-bit text that is not valid UTF-8
\*   "trunc"  UTF-8 text cut inside its last multi-byte sequence (not valid UTF-8)
DocKinds == {"utf8", "legacy", "trunc"}

\* chardet.detect(content)['encoding']: a statistical guess.  The UTF-8 prober
\* accepts an input that ends inside a multi-byte sequence, and a BOM alone
\* yields UTF-8-SIG; bytes that break UTF-8 in the middle are never called UTF-8.
Labels == {NoneLabel, "utf-8", "UTF-8", "UTF-8-SIG", "ISO-8859-1"}
Detect(doc) == IF doc.kind = "legacy" THEN {NoneLabel, "ISO-8859-1"} ELSE Labels

\* str.lower() on the labels
Lower(label) == IF label = "UTF-8" THEN "utf-8"
                ELSE IF label = "UTF-8-SIG" THEN "utf-8-sig"
                ELSE IF label = "ISO-8859-1" THEN "iso-8859-1" ELSE label

\* content.decode(encoding) succeeds: Latin-1 decodes every byte string, the
\* UTF-8 codecs only valid UTF-8.
DecodeOk(doc, label) ==
    \/ Lower(label) = "iso-8859-1"
    \/ Lower(label) \in {"utf-8", "utf-8-sig"} /\ doc.kind = "utf8"

allowed_types == {"text/plain", "text/csv", "application/rtf", "text/markdown"}
allowed_extensions == {".txt", ".csv", ".rtf", ".md"}
ExtTokens == {".txt", ".exe", ".TXT"}

\* Path(name).suffix.lower()
LowerExt(t) == IF t = ".TXT" THEN ".txt" ELSE t
Suffix(name) == IF Len(name) > 1 /\ name[Len(name)] \in ExtTokens
                THEN LowerExt(name[Len(name)]) ELSE ""

\* path parameters of DELETE /file/{file_id}: any non-empty string without '/'
PathIds == UNION { [1..n -> HexChars] : n \in 1..IdLen }

Routes == {"upload", "tts", "batch"}

(***************************************************************************)
(* State.                                                                  *)
(***************************************************************************)
VARIABLES
    upload_dir,      \* settings.upload_dir: file name -> [chars, utf8ok, mtime]
    output_dir,      \* settings.output_dir: output id (<id>.mp3) -> [mtime, complete]
    file_uploads,    \* table file_uploads: id -> [filename, is_deleted]
    tts_generations, \* table tts_generations: output_id -> record
    batch_processes, \* table batch_processes: batch_id -> [file_count, is_completed]
    bp,              \* the batch request in flight (its frame and its Session)
    engineLog,       \* the calls made to the synthesis engine, in order
    hits,            \* limiter: requests counted per route and peer in the current window
    issued,          \* uuid4 values handed out: [ids, outputs, batches]
    now,             \* the clock (UTC)
    resp,            \* the response of the request that returned last
    dl,              \* the download in flight, between its handler and the sending
    task,            \* the sweeper task and the lifespan that owns it
    local_offset,    \* the server's local time minus UTC
    read             \* a call of safe_file_read made on its own: arguments and result

vars == << upload_dir, output_dir, file_uploads, tts_generations, batch_processes,
           bp, engineLog, hits, issued, now, resp, dl, task, local_offset, read >>

store == << upload_dir, output_dir, file_uploads, tts_generations, batch_processes >>

\* What a request handler other than the download never touches.
background == << dl, task, local_offset, read >>

\* A response: the route, the status code, the credentials of the request, and
\* what the request named or made (upload id, output id, batch id, file_ids,
\* the index of the batch item that failed, the cause of the failure).
\* wellformed tells whether the body of the request was one its model accepts.
Resp(op, status, cred) ==
    [op |-> op, status |-> status, cred |-> cred, wellformed |-> TRUE, fid |-> NoId,
     oid |-> NoId, bid |-> 0, k |-> 0, detail |-> "", file_ids |-> << >>]

\* Steps that are no request
NoRequest(op) == Resp(op, 0, NoCredentials)

IdleBatch == [pc |-> "idle", cred |-> NoCredentials, bid |-> 0, file_ids |-> << >>, i |-> 0, file |-> << >>,
              chars |-> 0, oid |-> NoId, pending |-> << >>]

IdleDownload == [pc |-> "idle", cred |-> NoCredentials, oid |-> NoId]

\* lifespan has created the sweeper task, whose first sweep found the
\* directories empty and which now sleeps for the interval.
SleepingTask == [pc |-> "sleep", cancel |-> FALSE, lifespan |-> "serving"]

\* No call of safe_file_read outside a request
NoRead == [pc |-> "none", chars |-> 0, utf8ok |-> TRUE, max_size |-> 0, status |-> 0, len |-> 0]

\* The state after startup on a server whose local time is offset from UTC,
\* with call the call of safe_file_read about to be made on its own.
StartedReading(offset, call) ==
    /\ upload_dir = << >>
    /\ output_dir = << >>
    /\ file_uploads = << >>
    /\ tts_generations = << >>
    /\ batch_processes = << >>
    /\ bp = IdleBatch
    /\ engineLog = << >>
    /\ hits = [r \in Routes |-> [h \in Hosts |-> 0]]
    /\ issued = [ids |-> {}, outputs |-> 0, batches |-> 0]
    /\ now = 0
    /\ resp = NoRequest("init")
    /\ dl = IdleDownload
    /\ task = SleepingTask
    /\ local_offset = offset
    /\ read = call

Started(offset) == StartedReading(offset, NoRead)

\* A server that runs in UTC.
Init == Started(0)

(***************************************************************************)
(* auth.py                                                                 *)
(***************************************************************************)
\* security = HTTPBasic(): a request without credentials is refused (401)
security(cred) == cred.present

\* Mutant of verify_credentials: the password is not compared.
verify_username_only(cred) == cred.username = auth_username

verify_credentials(cred) ==
    LET correct_username == cred.username = auth_username
        correct_password == cred.password = auth_password
    IN  correct_username /\ correct_password

\* username: str = Depends(verify_credentials)
Authenticated(cred) == security(cred) /\ verify_credentials(cred)

\* A response that leaves everything but the response unchanged.
Reply(op, status, cred) ==
    /\ resp' = Resp(op, status, cred)
    /\ UNCHANGED << store, bp, engineLog, hits, issued, now, background >>

\* The same for a request with a body.
ReplyBody(op, status, cred, wellformed) ==
    /\ resp' = [Resp(op, status, cred) EXCEPT !.wellformed = wellformed]
    /\ UNCHANGED << store, bp, engineLog, hits, issued, now, background >>

\* Limiter(key_func=get_remote_address)
get_remote_address(cred) == cred.host

\* Mutant of Limited: one count per route, shared by all peers.
LimitedForAll(route, host, limit) == \E h \in Hosts : hits[route][h] >= limit

\* @limiter.limit(...): the window of the route is full for the peer
Limited(route, host, limit) == hits[route][host] >= limit
Hit(route, host) == [hits EXCEPT ![route][host] = @ + 1]

\* Mutant of ReplyCounted: the refused request leaves a file behind.
ReplyCountedLeavingFile(op, route, status, cred) ==
    /\ resp' = Resp(op, status, cred)
    /\ hits' = Hit(route, get_remote_address(cred))
    /\ upload_dir' = upload_dir @@ (<<"partial">> :> [chars |-> 0, utf8ok |-> TRUE, mtime |-> now])
    /\ UNCHANGED << output_dir, file_uploads, tts_generations, batch_processes,
                    bp, engineLog, issued, now, background >>

\* A response after the limiter has counted the request.
ReplyCounted(op, route, status, cred) ==
    /\ resp' = Resp(op, status, cred)
    /\ hits' = Hit(route, get_remote_address(cred))
    /\ UNCHANGED << store, bp, engineLog, issued, now, background >>

(***************************************************************************)
(* POST /upload                                                            *)
(***************************************************************************)
\* Mutant of validate_file_size: an upload of exactly the maximum is refused.
validate_file_size_below_max(doc) == ~(doc.size >= max_file_size)

\* validate_file_size: the upload passes
validate_file_size(doc) == ~(doc.size > max_file_size)

\* validate_file_type: the upload passes
validate_file_type(ctype, filename) ==
    ~( /\ ctype # "" /\ ctype \notin allowed_types
       /\ filename # << >>
       /\ Suffix(filename) \notin allowed_extensions )

\* file.filename or "uploaded_file.txt"
OriginalFilename(filename) == IF filename = << >> THEN <<"uploaded_file", ".txt">> ELSE filename
SafeFilename(filename) == Sanitize(OriginalFilename(filename))

\* f"{file_id}_{safe_filename}" and f"{file_id}_utf8_{safe_filename}"
RawName(file_id, safe_filename) == file_id \o <<"_">> \o safe_filename
Utf8Name(file_id, safe_filename) == file_id \o <<"_", "utf8", "_">> \o safe_filename

\* the branch that decodes and re-encodes: encoding and encoding.lower() != 'utf-8'
Converts(label) == label # NoneLabel /\ Lower(label) # "utf-8"

\* the file written at utf8_path
Utf8File(doc, label) ==
    [chars |-> doc.size, utf8ok |-> IF Converts(label) THEN TRUE ELSE doc.kind = "utf8",
     mtime |-> now]

RawFile(doc) == [chars |-> doc.size, utf8ok |-> doc.kind = "utf8", mtime |-> now]

\* UploadResponse(original_encoding=encoding, ...): original_encoding is a str field
UploadResponseStatus(label) == IF label = NoneLabel THEN 500 ELSE 200

upload_file(cred, filename, ctype, doc, label, file_id) ==
    IF ~Authenticated(cred)
    THEN ReplyBody("upload", 401, cred,
                   validate_file_size(doc) /\ validate_file_type(ctype, filename))
    ELSE IF Limited("upload", get_remote_address(cred), upload_rate_limit)
         THEN Reply("upload", 429, cred)
    ELSE IF ~validate_file_size(doc) THEN ReplyCounted("upload", "upload", 413, cred)
    ELSE IF ~validate_file_type(ctype, filename) THEN ReplyCounted("upload", "upload", 400, cred)
    ELSE   LET safe_filename == SafeFilename(filename)
               file_path == RawName(file_id, safe_filename)
               utf8_path == Utf8Name(file_id, safe_filename)
               saved == upload_dir @@ (file_path :> RawFile(doc))
           IN  /\ file_id \notin issued.ids
               /\ Cardinality(issued.ids) < MaxUploads
               /\ issued' = [issued EXCEPT !.ids = @ \cup {file_id}]
               /\ hits' = Hit("upload", get_remote_address(cred))
               /\ UNCHANGED << output_dir, tts_generations, batch_processes, bp, engineLog, now, background >>
               /\ IF Converts(label) /\ ~DecodeOk(doc, label)
                  THEN \* the raw file is written, the conversion raises
                       /\ upload_dir' = saved
                       /\ UNCHANGED file_uploads
                       /\ resp' = [Resp("upload", 400, cred) EXCEPT !.fid = file_id]
                  ELSE /\ upload_dir' = saved @@ (utf8_path :> Utf8File(doc, label))
                       /\ file_uploads' = file_uploads @@
                              (file_id :> [filename |-> safe_filename, is_deleted |-> FALSE])
                       /\ resp' = [Resp("upload", UploadResponseStatus(label), cred) EXCEPT !.fid = file_id]

(***************************************************************************)
(* DELETE /file/{file_id} and DELETE /output/{output_id}                   *)
(***************************************************************************)
\* Path(settings.upload_dir).glob(pattern + "*")
Glob(prefix) == { f \in DOMAIN upload_dir : IsPrefix(prefix, f) }

\* Mutant of delete_file: the record is removed together with the files.
delete_file_removing_record(cred, file_id) ==
    IF ~Authenticated(cred) THEN Reply("delete_file", 401, cred)
    ELSE LET files == Glob(file_id) IN
         IF files = {} THEN Reply("delete_file", 404, cred)
         ELSE /\ upload_dir' = Restrict(upload_dir, DOMAIN upload_dir \ files)
              /\ file_uploads' = Restrict(file_uploads, DOMAIN file_uploads \ {file_id})
              /\ resp' = [Resp("delete_file", 200, cred) EXCEPT !.fid = file_id]
              /\ UNCHANGED << output_dir, tts_generations, batch_processes, bp, engineLog,
                              hits, issued, now, background >>

delete_file(cred, file_id) ==
    IF ~Authenticated(cred) THEN Reply("delete_file", 401, cred)
    ELSE LET files == Glob(file_id) IN
         IF files = {} THEN Reply("delete_file", 404, cred)
         ELSE /\ upload_dir' = Restrict(upload_dir, DOMAIN upload_dir \ files)
              /\ file_uploads' = IF file_id \in DOMAIN file_uploads
                                 THEN [file_uploads EXCEPT ![file_id].is_deleted = TRUE]
                                 ELSE file_uploads
              /\ resp' = [Resp("delete_file", 200, cred) EXCEPT !.fid = file_id]
              /\ UNCHANGED << output_dir, tts_generations, batch_processes, bp, engineLog,
                              hits, issued, now, background >>

\* Mutant of delete_output: the file is removed and the record is left as it was.
delete_output_unflagged(cred, output_id) ==
    IF ~Authenticated(cred) THEN Reply("delete_output", 401, cred)
    ELSE IF output_id \notin DOMAIN output_dir
         THEN /\ resp' = [Resp("delete_output", 404, cred) EXCEPT !.oid = output_id]
              /\ UNCHANGED << store, bp, engineLog, hits, issued, now, background >>
    ELSE /\ output_dir' = Restrict(output_dir, DOMAIN output_dir \ {output_id})
         /\ resp' = [Resp("delete_output", 200, cred) EXCEPT !.oid = output_id]
         /\ UNCHANGED << upload_dir, file_uploads, tts_generations, batch_processes, bp,
                         engineLog, hits, issued, now, background >>

delete_output(cred, output_id) ==
    IF ~Authenticated(cred) THEN Reply("delete_output", 401, cred)
    ELSE IF output_id \notin DOMAIN output_dir
         THEN /\ resp' = [Resp("delete_output", 404, cred) EXCEPT !.oid = output_id]
              /\ UNCHANGED << store, bp, engineLog, hits, issued, now, background >>
    ELSE /\ output_dir' = Restrict(output_dir, DOMAIN output_dir \ {output_id})
         /\ tts_generations' = IF output_id \in DOMAIN tts_generations
                               THEN [tts_generations EXCEPT ![output_id].is_deleted = TRUE]
                               ELSE tts_generations
         /\ resp' = [Resp("delete_output", 200, cred) EXCEPT !.oid = output_id]
         /\ UNCHANGED << upload_dir, file_uploads, batch_processes, bp, engineLog,
                         hits, issued, now, background >>

(***************************************************************************)
(* The retention sweeper                                                   *)
(***************************************************************************)
\* datetime.fromtimestamp(st_mtime): a naive datetime in the server's local time
fromtimestamp(mtime) == mtime + local_offset

\* file_age = now - datetime.fromtimestamp(file_path.stat().st_mtime), with
\* now = datetime.utcnow(), a naive datetime in UTC
file_age(mtime) == now - fromtimestamp(mtime)

\* file_age > max_age
Expired(file) == file_age(file.mtime) > max_file_age

\* The file at which a sweep meets an OS error (stat or unlink raises), if any.
NoFault == [dir |-> "none", name |-> << >>]
Fault(dir, name) == [dir |-> dir, name |-> name]

\* The sweeps the environment allows in the current state: no error, or an
\* error at one file after the glob has yielded the files of `before`.
\* The temp directory, which no route writes to, is always empty.
SweepFaults ==
    { [bad |-> NoFault, before |-> {}] }
    \cup { [bad |-> Fault("upload", f), before |-> B] :
             f \in DOMAIN upload_dir, B \in SUBSET DOMAIN upload_dir }
    \cup { [bad |-> Fault("output", o), before |-> B] :
             o \in DOMAIN output_dir, B \in SUBSET DOMAIN output_dir }

\* cleanup_old_files: the three loops run inside one try, upload directory
\* first; the first error leaves the loops and is logged.
cleanup_old_files(bad, before) ==
    LET old_uploads == { f \in DOMAIN upload_dir : Expired(upload_dir[f]) }
        old_outputs == { o \in DOMAIN output_dir : Expired(output_dir[o]) }
        removed_uploads == IF bad.dir = "upload"
                           THEN (old_uploads \cap before) \ {bad.name}
                           ELSE old_uploads
        removed_outputs == IF bad.dir = "upload" THEN {}
                           ELSE IF bad.dir = "output"
                                THEN (old_outputs \cap before) \ {bad.name}
                                ELSE old_outputs
    IN  /\ upload_dir' = Restrict(upload_dir, DOMAIN upload_dir \ removed_uploads)
        /\ output_dir' = Restrict(output_dir, DOMAIN output_dir \ removed_outputs)

\* Mutant of periodic_cleanup: an exception that leaves the try body ends the task.
periodic_cleanup_ending(bad, before, raised) ==
    /\ task.pc \in {"sleep", "backoff"}
    /\ ~task.cancel
    /\ cleanup_old_files(bad, before)
    /\ task' = [task EXCEPT !.pc = IF raised THEN "failed" ELSE "sleep"]
    /\ resp' = [NoRequest("sweep") EXCEPT !.detail = IF bad = NoFault THEN "" ELSE "error"]
    /\ UNCHANGED << file_uploads, tts_generations, batch_processes, bp, engineLog,
                    hits, issued, now, dl, local_offset, read >>

\* Mutant of periodic_cleanup: the sweep flags the record of each output it removes.
periodic_cleanup_flagging(bad, before, raised) ==
    /\ task.pc \in {"sleep", "backoff"}
    /\ ~task.cancel
    /\ cleanup_old_files(bad, before)
    /\ task' = [task EXCEPT !.pc = IF raised THEN "backoff" ELSE "sleep"]
    /\ resp' = [NoRequest("sweep") EXCEPT !.detail = IF bad = NoFault THEN "" ELSE "error"]
    /\ tts_generations' =
          [o \in DOMAIN tts_generations |->
             IF o \in DOMAIN output_dir /\ Expired(output_dir[o])
             THEN [tts_generations[o] EXCEPT !.is_deleted = TRUE]
             ELSE tts_generations[o]]
    /\ UNCHANGED << file_uploads, batch_processes, bp, engineLog,
                    hits, issued, now, dl, local_offset, read >>

\* One turn of the loop of periodic_cleanup: the sleep (of the interval, or of
\* the 60 seconds after an error) ends, cleanup_old_files runs without reaching
\* the event loop, and the task sleeps again.  `raised` is an exception that
\* leaves the try body (from the logger, or from the call of sleep).
periodic_cleanup(bad, before, raised) ==
    /\ task.pc \in {"sleep", "backoff"}
    /\ ~task.cancel
    /\ cleanup_old_files(bad, before)
    /\ task' = [task EXCEPT !.pc = IF raised THEN "backoff" ELSE "sleep"]
    /\ resp' = [NoRequest("sweep") EXCEPT !.detail = IF bad = NoFault THEN "" ELSE "error"]
    /\ UNCHANGED << file_uploads, tts_generations, batch_processes, bp, engineLog,
                    hits, issued, now, dl, local_offset, read >>

\* lifespan after its yield: cleanup_task.cancel(), then await cleanup_task
Shutdown ==
    /\ task.lifespan = "serving"
    /\ task' = [task EXCEPT !.cancel = TRUE, !.lifespan = "awaiting"]
    /\ resp' = NoRequest("shutdown")
    /\ UNCHANGED << store, bp, engineLog, hits, issued, now, dl, local_offset, read >>

\* Mutant of TaskCancelled: the cancellation is swallowed and the task sleeps on.
TaskIgnoresCancel ==
    /\ task.cancel
    /\ task.pc \in {"sleep", "backoff"}
    /\ task' = [task EXCEPT !.cancel = FALSE, !.pc = "sleep"]
    /\ resp' = NoRequest("cancelled")
    /\ UNCHANGED << store, bp, engineLog, hits, issued, now, dl, local_offset, read >>

\* The event loop throws CancelledError into the task at its await: in the
\* sleep of the try body it is caught and the loop is left by break; in the
\* sleep of the except clause it propagates and ends the task.
TaskCancelled ==
    /\ task.cancel
    /\ task.pc \in {"sleep", "backoff"}
    /\ task' = [task EXCEPT !.pc = IF task.pc = "sleep" THEN "returned" ELSE "cancelled"]
    /\ resp' = NoRequest("cancelled")
    /\ UNCHANGED << store, bp, engineLog, hits, issued, now, dl, local_offset, read >>

\* await cleanup_task returns, or raises the CancelledError that lifespan catches
ShutdownCompletes ==
    /\ task.lifespan = "awaiting"
    /\ task.pc \in {"returned", "cancelled"}
    /\ task' = [task EXCEPT !.lifespan = "stopped"]
    /\ resp' = NoRequest("stopped")
    /\ UNCHANGED << store, bp, engineLog, hits, issued, now, dl, local_offset, read >>

\* time passes
Tick ==
    /\ now < MaxTime
    /\ now' = now + 1
    /\ resp' = NoRequest("tick")
    /\ UNCHANGED << store, bp, engineLog, hits, issued, background >>

\* the limiter's window ends
WindowExpires ==
    /\ hits # [r \in Routes |-> [h \in Hosts |-> 0]]
    /\ hits' = [r \in Routes |-> [h \in Hosts |-> 0]]
    /\ resp' = NoRequest("window")
    /\ UNCHANGED << store, bp, engineLog, issued, now, background >>

(***************************************************************************)
(* models.py: request validation                                           *)
(***************************************************************************)
RECURSIVE LStrip(_)
LStrip(t) == IF t # << >> /\ Head(t) = " " THEN LStrip(Tail(t)) ELSE t
RECURSIVE RStrip(_)
RStrip(t) == IF t # << >> /\ t[Len(t)] = " " THEN RStrip(SubSeq(t, 1, Len(t) - 1)) ELSE t
\* str.strip()
Strip(t) == RStrip(LStrip(t))

Markup == {"<", ">", "\"", "'", "&"}
IsNotMarkup(c) == c \notin Markup
IsMarkup(c) == c \in Markup
\* re.sub(r'[<>\"\'&]', '', v)
RemoveMarkup(t) == SelectSeq(t, IsNotMarkup)

\* Mutant of validate_text: the text is stripped of blanks only.
validate_text_keeping_markup(v) == Strip(v)

\* TTSRequest.validate_filename: a name longer than max_filename_length is cut
\* to kept_filename_length characters and given the extension .txt
max_filename_length == 4
kept_filename_length == 3
validate_filename(v) ==
    IF v # << >>
    THEN LET sanitized == Sanitize(v) IN
         IF Len(sanitized) > max_filename_length
         THEN SubSeq(sanitized, 1, kept_filename_length) \o <<".txt">>
         ELSE sanitized
    ELSE v

\* tts_request.filename: None when the request has no such field
RequestFilename(req) ==
    IF "filename" \in DOMAIN req THEN validate_filename(req.filename) ELSE << >>

\* Mutant of TextValid: a text of exactly max_text_length characters is refused.
TextValidBelowMax(v) == Len(v) >= 1 /\ Len(v) < max_text_length /\ Strip(v) # << >>

\* TTSRequest.text: Field(min_length=1, max_length=settings.max_text_length) and
\* validate_text
TextValid(v) == Len(v) >= 1 /\ Len(v) <= max_text_length /\ Strip(v) # << >>
validate_text(v) == Strip(RemoveMarkup(v))

\* re.match(r'^...$', v): `$` matches at the end of the string and also before
\* a newline that ends it, so what the pattern has to cover is v without one
\* final newline.
BeforeFinalNewline(v) ==
    IF v # << >> /\ v[Len(v)] = "\n" THEN SubSeq(v, 1, Len(v) - 1) ELSE v

VoiceTokens == {"en", "US", "-", "_"}
\* voice: Field(min_length=1) and validate_voice: v.strip() is not empty and
\* re.match(r'^[a-zA-Z0-9\-_]+$', v)
validate_voice(v) ==
    LET w == BeforeFinalNewline(v)
    IN  /\ Len(v) >= 1
        /\ Strip(v) # << >>
        /\ Len(w) >= 1
        /\ \A i \in 1..Len(w) : w[i] \in VoiceTokens

\* rate, volume: Field("+0%", regex=r"^[+-]\d+%$"); pitch: regex=r"^[+-]\d+Hz$".
\* The pattern is applied with re.match.
SignTokens == {"+", "-"}
DigitTokens == {"0", "5"}
MatchesProsody(v, unit) ==
    LET w == BeforeFinalNewline(v)
    IN  /\ Len(w) >= 3
        /\ w[1] \in SignTokens
        /\ \A i \in 2..(Len(w) - 1) : w[i] \in DigitTokens
        /\ w[Len(w)] = unit

\* A request that leaves a prosody field out gets the field's default.
ProsodyValid(req) ==
    /\ "rate" \in DOMAIN req => MatchesProsody(req.rate, "%")
    /\ "volume" \in DOMAIN req => MatchesProsody(req.volume, "%")
    /\ "pitch" \in DOMAIN req => MatchesProsody(req.pitch, "Hz")

TTSRequestValid(req) ==
    TextValid(req.text) /\ validate_voice(req.voice) /\ ProsodyValid(req)

\* re.match(r'^[a-f0-9\-]{36}$', file_id)
IdChars == HexChars \cup {"c", "-"} \cup { Digit(n) : n \in 1..9 }
WellFormedId(file_id) ==
    LET w == BeforeFinalNewline(file_id)
    IN  Len(w) = IdLen /\ \A i \in 1..Len(w) : w[i] \in IdChars

\* BatchProcessRequest: file_ids, Field(min_items=1, max_items=50), validate_file_ids
max_batch_items == 50
validate_file_ids(v) ==
    /\ Len(v) >= 1 /\ Len(v) <= max_batch_items
    /\ \A i \in 1..Len(v) : WellFormedId(v[i])

BatchRequestValid(req) ==
    validate_file_ids(req.file_ids) /\ validate_voice(req.voice) /\ ProsodyValid(req)

TextInputs == { << >>, <<" ">>, <<"h">>, <<"<">>, <<"h", "<", "h", " ">>,
                <<"h", "h", "h", "h", "h">> }
VoiceInputs == { <<"en", "-", "US">>, <<"en", " ", "US">>, << >> }
TTSRequests == [text : TextInputs, voice : VoiceInputs]

(***************************************************************************)
(* The synthesis engine and POST /tts                                      *)
(***************************************************************************)
\* communicate.save(output_file): the audio is written, or the call raises,
\* leaving no file or the part of the file written so far.
EngineOutcomes == {"ok", "fail", "partial"}

\* process_text_to_speech: one call of the engine, edge_tts.Communicate(text, ...).
\* Of the text handed over the log keeps the markup characters it contains.
process_text_to_speech(log, bid, i, file_id, output_id, text, outcome) ==
    Append(log, [bid |-> bid, i |-> i, fid |-> file_id, oid |-> output_id,
                 markup |-> SelectSeq(text, IsMarkup), ok |-> outcome = "ok"])

\* the output directory after the call
Saved(output_id, outcome) ==
    IF outcome = "fail" THEN output_dir
    ELSE output_dir @@ (output_id :> [mtime |-> now, complete |-> outcome = "ok"])

Generation(file_id, text_length, original_name, is_batch, batch_id) ==
    [file_id |-> file_id, text_length |-> text_length, original_name |-> original_name,
     is_batch |-> is_batch, batch_id |-> batch_id, is_deleted |-> FALSE]

\* tts_request.filename or "text_to_speech.txt"
TtsOriginalName(filename) ==
    IF filename # << >> THEN filename ELSE <<"text_to_speech", ".txt">>

\* Mutant of TtsCommit: the record is stored before the engine is called.
TtsCommitFirst(output_id, text, filename, outcome) ==
    tts_generations @@
      (output_id :> Generation(NoId, Len(text), TtsOriginalName(filename), FALSE, 0))

\* db.add(db_generation); db.commit() after the engine call of /tts
TtsCommit(output_id, text, filename, outcome) ==
    IF outcome = "ok"
    THEN tts_generations @@
           (output_id :> Generation(NoId, Len(text), TtsOriginalName(filename), FALSE, 0))
    ELSE tts_generations

text_to_speech(cred, req, outcome) ==
    IF ~Authenticated(cred) THEN ReplyBody("tts", 401, cred, TTSRequestValid(req))
    ELSE IF ~TTSRequestValid(req) THEN ReplyBody("tts", 422, cred, FALSE)
    ELSE IF Limited("tts", get_remote_address(cred), tts_rate_limit) THEN Reply("tts", 429, cred)
    ELSE LET output_id == OutputId(issued.outputs + 1)
             text == validate_text(req.text)
         IN  /\ issued.outputs < MaxOutputs
             /\ issued' = [issued EXCEPT !.outputs = @ + 1]
             /\ hits' = Hit("tts", get_remote_address(cred))
             /\ engineLog' = process_text_to_speech(engineLog, 0, 0, NoId, output_id, text,
                                                    outcome)
             /\ output_dir' = Saved(output_id, outcome)
             /\ tts_generations' = TtsCommit(output_id, text, RequestFilename(req), outcome)
             /\ resp' = [Resp("tts", IF outcome = "ok" THEN 200 ELSE 500, cred)
                            EXCEPT !.oid = output_id,
                                   !.detail = IF outcome = "ok" THEN "" ELSE "engine"]
             /\ UNCHANGED << upload_dir, file_uploads, batch_processes, bp, now, background >>

(***************************************************************************)
(* safe_file_read                                                          *)
(***************************************************************************)
\* The read loop; pos is len(content).  The result is the status and the
\* number of characters returned.
RECURSIVE ReadLoop(_, _, _, _)
ReadLoop(chars, pos, max_size, chunk) ==
    IF pos < max_size
    THEN LET n == Min(chunk, chars - pos) IN
         IF n = 0 THEN [status |-> 200, len |-> pos]
         ELSE IF pos + n > max_size THEN [status |-> 413, len |-> 0]
         ELSE ReadLoop(chars, pos + n, max_size, chunk)
    ELSE [status |-> 200, len |-> pos]

safe_file_read(file, max_size) ==
    IF ~file.utf8ok THEN [status |-> 400, len |-> 0]
    ELSE ReadLoop(file.chars, 0, max_size, chunk_size)

(***************************************************************************)
(* POST /batch-process                                                     *)
(***************************************************************************)
\* the glob pattern f"{file_id}_utf8_*"
Utf8Pattern(file_id) == file_id \o <<"_", "utf8", "_">>

BatchResp(frame, status, detail) ==
    [Resp("batch", status, frame.cred) EXCEPT !.bid = frame.bid, !.k = frame.i,
                                        !.detail = detail, !.file_ids = frame.file_ids]

\* Mutant of Committed: the rows were never added to the Session.
CommittedWithoutAdd(pending) == tts_generations

\* The rows of tts_generations once the Session's pending objects are committed
Committed(pending) ==
    tts_generations @@
      [o \in { pending[j].oid : j \in 1..Len(pending) } |->
         LET j == CHOOSE j \in 1..Len(pending) : pending[j].oid = o IN pending[j].row]

\* What the Session holds when the request ends without db.commit(): get_db
\* closes the Session, its pending objects are discarded.
Closed(pending) == tts_generations

\* The head of `for file_id in batch_request.file_ids`, run for item frame.i
\* with the batch table `batches`, up to the next await; after the last item,
\* the end of the handler.
LoopHead(frame, batches) ==
    IF frame.i > Len(frame.file_ids)
    THEN \* db_batch.is_completed = True; db.commit()
         /\ batch_processes' = [batches EXCEPT ![frame.bid].is_completed = TRUE]
         /\ tts_generations' = Committed(frame.pending)
         /\ bp' = IdleBatch
         /\ resp' = BatchResp(frame, 200, "")
    ELSE LET utf8_files == Glob(Utf8Pattern(frame.file_ids[frame.i])) IN
         IF utf8_files = {}
         THEN /\ batch_processes' = batches
              /\ tts_generations' = Closed(frame.pending)
              /\ bp' = IdleBatch
              /\ resp' = BatchResp(frame, 404, "missing")
         ELSE \E utf8_file \in utf8_files :   \* utf8_files[0], in directory order
              /\ batch_processes' = batches
              /\ tts_generations' = tts_generations
              /\ bp' = [frame EXCEPT !.pc = "read", !.file = utf8_file]
              /\ resp' = NoRequest("batch_step")

\* The request is answered before the handler runs.
BatchRefused(status, cred, req) == ReplyBody("batch", status, cred, BatchRequestValid(req))

\* Mutant of NewBatch: the batch is created as completed.
NewBatchCompleted(file_count) == [file_count |-> file_count, is_completed |-> TRUE]

\* BatchProcess(batch_id=..., file_count=len(file_ids), ...): is_completed
\* takes its column default
NewBatch(file_count) == [file_count |-> file_count, is_completed |-> FALSE]

\* The request arrives; the handler runs to its first await.
batch_process(cred, req) ==
    /\ bp.pc = "idle"
    /\ IF ~Authenticated(cred) THEN BatchRefused(401, cred, req)
       ELSE IF ~BatchRequestValid(req) THEN BatchRefused(422, cred, req)
       ELSE IF Limited("batch", get_remote_address(cred), batch_rate_limit)
            THEN BatchRefused(429, cred, req)
       ELSE LET batch_id == issued.batches + 1
                frame == [IdleBatch EXCEPT !.cred = cred, !.bid = batch_id,
                                           !.file_ids = req.file_ids, !.i = 1]
            IN  /\ issued.batches < MaxBatches
                /\ issued' = [issued EXCEPT !.batches = @ + 1]
                /\ hits' = Hit("batch", get_remote_address(cred))
                /\ LoopHead(frame, batch_processes @@
                                   (batch_id :> NewBatch(Len(req.file_ids))))
                /\ UNCHANGED << upload_dir, output_dir, file_uploads, engineLog, now, background >>

\* Mutant of BatchFails: the failed item is skipped and the loop goes on
\* (the request ends only when the failed item was the last one).
BatchSkipsItem(status, detail) ==
    /\ tts_generations' = tts_generations
    /\ IF bp.i < Len(bp.file_ids) /\ Glob(Utf8Pattern(bp.file_ids[bp.i + 1])) # {}
       THEN /\ bp' = [bp EXCEPT !.i = @ + 1, !.pc = "read",
                                !.file = CHOOSE f \in Glob(Utf8Pattern(bp.file_ids[bp.i + 1])) : TRUE]
            /\ resp' = NoRequest("batch_step")
       ELSE /\ bp' = IdleBatch
            /\ resp' = BatchResp(bp, status, detail)

\* The request fails: the exception leaves the handler.
BatchFails(status, detail) ==
    /\ bp' = IdleBatch
    /\ tts_generations' = Closed(bp.pending)
    /\ resp' = BatchResp(bp, status, detail)

\* str.replace(old, ""): every occurrence of old is removed, from the left
RECURSIVE RemoveAll(_, _)
RemoveAll(t, old) ==
    IF Len(t) < Len(old) \/ old = << >> THEN t
    ELSE IF IsPrefix(old, t) THEN RemoveAll(SubSeq(t, Len(old) + 1, Len(t)), old)
    ELSE <<Head(t)>> \o RemoveAll(Tail(t), old)

\* original_name = utf8_file.name.replace(f"{file_id}_utf8_", "")
BatchOriginalName(name, file_id) == RemoveAll(name, Utf8Pattern(file_id))

\* the content read from a file of n characters (of a file's content the
\* model keeps the length only)
FileText(n) == [j \in 1..n |-> "f"]

\* text = await safe_file_read(utf8_file); output_id = str(uuid.uuid4())
BatchRead ==
    /\ bp.pc = "read"
    /\ UNCHANGED << upload_dir, output_dir, file_uploads, batch_processes, engineLog, hits, now, background >>
    /\ IF bp.file \notin DOMAIN upload_dir
       THEN BatchFails(500, "vanished") /\ UNCHANGED issued
       ELSE LET r == safe_file_read(upload_dir[bp.file], max_text_length) IN
            IF r.status # 200
            THEN BatchFails(r.status, "read") /\ UNCHANGED issued
            ELSE /\ issued.outputs < MaxOutputs
                 /\ issued' = [issued EXCEPT !.outputs = @ + 1]
                 /\ bp' = [bp EXCEPT !.pc = "synth", !.chars = r.len,
                                     !.oid = OutputId(issued.outputs + 1)]
                 /\ resp' = NoRequest("batch_step")
                 /\ UNCHANGED tts_generations

\* await process_text_to_speech(...); db.add(db_generation); the next item
BatchSynth(outcome) ==
    /\ bp.pc = "synth"
    /\ engineLog' = process_text_to_speech(engineLog, bp.bid, bp.i, bp.file_ids[bp.i],
                                            bp.oid, FileText(bp.chars), outcome)
    /\ output_dir' = Saved(bp.oid, outcome)
    /\ UNCHANGED << upload_dir, file_uploads, hits, issued, now, background >>
    /\ IF outcome = "ok"
       THEN LoopHead([bp EXCEPT !.i = @ + 1, !.file = << >>, !.chars = 0, !.oid = NoId,
                                !.pending = Append(@,
                                   [oid |-> bp.oid,
                                    row |-> Generation(bp.file_ids[bp.i], bp.chars,
                                                       BatchOriginalName(bp.file, bp.file_ids[bp.i]),
                                                       TRUE, bp.bid)])],
                     batch_processes)
       ELSE BatchFails(500, "engine") /\ UNCHANGED batch_processes

(***************************************************************************)
(* The routes that only read                                               *)
(***************************************************************************)
\* ProcessedFilesInfo: file_ids, Field(min_items=1, max_items=100), validate_file_ids
max_zip_items == 100
ZipRequestValid(info) ==
    /\ Len(info.file_ids) >= 1 /\ Len(info.file_ids) <= max_zip_items
    /\ \A i \in 1..Len(info.file_ids) : WellFormedId(info.file_ids[i])

create_zip(cred, info) ==
    ReplyBody("create_zip",
              IF ~Authenticated(cred) THEN 401
              ELSE IF ~ZipRequestValid(info) THEN 422 ELSE 200,
              cred, ZipRequestValid(info))

\* download_file: the handler checks that the file exists and returns a
\* FileResponse for its path; the file is opened when the response is sent.
download_file(cred, output_id) ==
    /\ dl.pc = "idle"
    /\ IF ~Authenticated(cred) THEN Reply("download", 401, cred)
       ELSE IF output_id \notin DOMAIN output_dir
            THEN /\ resp' = [Resp("download", 404, cred) EXCEPT !.oid = output_id]
                 /\ UNCHANGED << store, bp, engineLog, hits, issued, now, background >>
            ELSE /\ dl' = [pc |-> "send", cred |-> cred, oid |-> output_id]
                 /\ resp' = [Resp("download", 0, cred) EXCEPT !.oid = output_id]
                 /\ UNCHANGED << store, bp, engineLog, hits, issued, now, task, local_offset, read >>

\* FileResponse(path=file_path) is sent: the file is stat'ed and read; when it
\* is gone the response raises and the server answers 500.
\* app.mount("/outputs", StaticFiles(directory=settings.output_dir)): GET
\* /outputs/<output_id>.mp3, the output_url of the /tts and /batch-process
\* responses.  A mounted application has none of the routes' dependencies:
\* the credentials of the request are not looked at.
outputs_mount(cred, output_id) ==
    /\ resp' = [Resp("outputs", IF output_id \in DOMAIN output_dir THEN 200 ELSE 404, cred)
                   EXCEPT !.oid = output_id]
    /\ UNCHANGED << store, bp, engineLog, hits, issued, now, background >>

SendFile ==
    /\ dl.pc = "send"
    /\ dl' = IdleDownload
    /\ resp' = [Resp("download", IF dl.oid \in DOMAIN output_dir THEN 200 ELSE 500, dl.cred)
                   EXCEPT !.oid = dl.oid]
    /\ UNCHANGED << store, bp, engineLog, hits, issued, now, task, local_offset, read >>

list_uploads(cred) ==
    IF ~Authenticated(cred) THEN Reply("uploads", 401, cred)
    ELSE Reply("uploads", 200, cred)

get_file_content_by_id(cred, file_id) ==
    IF ~Authenticated(cred) THEN Reply("file_content", 401, cred)
    ELSE LET utf8_files == Glob(Utf8Pattern(file_id)) IN
         IF utf8_files = {} THEN Reply("file_content", 404, cred)
         ELSE \E utf8_file \in utf8_files :
                Reply("file_content", safe_file_read(upload_dir[utf8_file], max_text_length).status, cred)

(***************************************************************************)
(* Error responses                                                         *)
(***************************************************************************)
\* The exception an error response was made from.  A body that fails the
\* model of the request raises RequestValidationError; a full window raises
\* RateLimitExceeded; the dependencies and the handlers raise HTTPException,
\* which for a 500 is the one their `except Exception as e` clauses make with
\* str(e) in its detail; the sending of a FileResponse raises out of the
\* handler.
RaisedFor(r) ==
    IF r.status = 422 THEN [class |-> "RequestValidationError", text |-> TRUE]
    ELSE IF r.status = 429 THEN [class |-> "RateLimitExceeded", text |-> FALSE]
    ELSE IF r.op = "download" /\ r.status = 500 THEN [class |-> "Exception", text |-> TRUE]
    ELSE [class |-> "HTTPException", text |-> r.status = 500]

\* @app.exception_handler(HTTPException): the body made from exc
http_exception_handler(exc) ==
    [keys |-> {"detail", "error_code", "timestamp"}, exception_text |-> exc.text]

\* @app.exception_handler(Exception)
general_exception_handler(exc) ==
    [keys |-> {"detail", "error_code", "timestamp"}, exception_text |-> FALSE]

\* The handler FastAPI installs for RequestValidationError (the app registers
\* none): {"detail": exc.errors()}
request_validation_exception_handler(exc) ==
    [keys |-> {"detail"}, exception_text |-> exc.text]

\* slowapi's _rate_limit_exceeded_handler: {"error": "Rate limit exceeded: ..."}
rate_limit_exceeded_handler(exc) ==
    [keys |-> {"error"}, exception_text |-> exc.text]

\* The body of an error response: that of the handler registered for the
\* class of its exception.
ErrorBody(r) ==
    LET exc == RaisedFor(r) IN
    CASE exc.class = "HTTPException" -> http_exception_handler(exc)
      [] exc.class = "RequestValidationError" -> request_validation_exception_handler(exc)
      [] exc.class = "RateLimitExceeded" -> rate_limit_exceeded_handler(exc)
      [] OTHER -> general_exception_handler(exc)

(***************************************************************************)
(* The system                                                              *)
(***************************************************************************)
\* The requests of each route, with their inputs drawn from the given sets;
\* ids are the values uuid4 may return for an upload.
Uploads(creds, names, ctypes, docs, labels, ids) ==
    \E cred \in creds, filename \in names, ctype \in ctypes, doc \in docs :
      \E label \in Detect(doc) \cap labels, file_id \in ids :
        upload_file(cred, filename, ctype, doc, label, file_id)

Syntheses(creds, reqs, outcomes) ==
    \E cred \in creds, req \in reqs, outcome \in outcomes :
      text_to_speech(cred, req, outcome)

Batches(creds, reqs) == \E cred \in creds, req \in reqs : batch_process(cred, req)

Zips(creds, reqs) == \E cred \in creds, info \in reqs : create_zip(cred, info)

Downloads(creds, params) ==
    \E cred \in creds, output_id \in params : download_file(cred, output_id)
StaticOutputs(creds, params) ==
    \E cred \in creds, output_id \in params : outputs_mount(cred, output_id)

\* The turns of the sweeper: with or without OS errors, with or without an
\* exception that leaves cleanup_old_files or the sleep.
Sweeps(faulty, raising) ==
    \E fault \in (IF faulty THEN SweepFaults ELSE { [bad |-> NoFault, before |-> {}] }) :
      \E raised \in raising : periodic_cleanup(fault.bad, fault.before, raised)

FileDeletions(creds, params) ==
    \E cred \in creds, file_id \in params : delete_file(cred, file_id)

OutputDeletions(creds, params) ==
    \E cred \in creds, output_id \in params : delete_output(cred, output_id)

Listings(creds) == \E cred \in creds : list_uploads(cred)

FileContents(creds, params) ==
    \E cred \in creds, file_id \in params : get_file_content_by_id(cred, file_id)

BatchSteps(outcomes) == BatchRead \/ \E outcome \in outcomes : BatchSynth(outcome)

\* Ids of the uuid alphabet: "c..cd"
Id(c, d) == [i \in 1..IdLen |-> IF i = IdLen THEN d ELSE c]
PlainVoice == <<"en", "-", "US">>

\* --- The upload store: uploads, deletions by id and by prefix, the sweeper.
StoreDocs == [size : {max_file_size}, kind : DocKinds] \cup
             { [size |-> max_file_size + 1, kind |-> "utf8"] }
StoreNames == { <<"x", ".txt">>, <<"utf8", "_", "x", ".txt">> }
StoreIds == { Id("a", "a"), Id("a", "b"), Id("b", "b") }

Next ==
    \/ Uploads({GoodCredentials}, StoreNames, {"text/plain"}, StoreDocs,
               Labels \ {"UTF-8"}, StoreIds)
    \/ FileDeletions({GoodCredentials}, PathIds)
    \/ Sweeps(FALSE, {FALSE})
    \/ Tick
    \/ WindowExpires

Spec == Init /\ [][Next]_vars

\* --- The output store: single syntheses, deletions, the sweeper.
SynthNext ==
    \/ Syntheses({GoodCredentials}, TTSRequests, EngineOutcomes)
    \/ OutputDeletions({GoodCredentials}, OutputIds)
    \/ Sweeps(FALSE, {FALSE})
    \/ Tick
    \/ WindowExpires

SynthSpec == Init /\ [][SynthNext]_vars

\* --- Batch processing: uploads of readable and unreadable documents, batches
\* over stored and missing ids, deletions racing with the batch in flight.
BatchDocs == [size : {max_text_length, max_file_size}, kind : {"utf8", "trunc"}]
BatchUploadIds == { Id("a", "a"), Id("a", "b") }
BatchFileIds == BatchUploadIds \cup { Id("b", "b"), <<"z">> }
BatchSpecRequests ==
    [file_ids : UNION { [1..n -> BatchFileIds] : n \in 0..MaxBatchLen },
     voice : { PlainVoice }]

BatchNext ==
    \/ Uploads({GoodCredentials}, { <<"x", ".txt">> }, {"text/plain"}, BatchDocs,
               {"utf-8"}, BatchUploadIds)
    \/ Batches({GoodCredentials}, BatchSpecRequests)
    \/ BatchSteps(EngineOutcomes)
    \/ FileDeletions({GoodCredentials}, BatchUploadIds)
    \/ WindowExpires

BatchSpec == Init /\ [][BatchNext]_vars

\* --- Authentication: every protected route, with and without valid
\* credentials, with well-formed and malformed bodies.
AuthDocs == { [size |-> max_text_length, kind |-> "utf8"],
              [size |-> max_file_size + 1, kind |-> "utf8"] }
AuthTTSRequests == { [text |-> <<"h">>, voice |-> PlainVoice],
                     [text |-> << >>, voice |-> PlainVoice] }
AuthBatchRequests == { [file_ids |-> <<Id("a", "a")>>, voice |-> PlainVoice],
                       [file_ids |-> << <<"z">> >>, voice |-> PlainVoice] }
AuthZipRequests == { [file_ids |-> <<OutputId(1)>>], [file_ids |-> << <<"z">> >>] }

AuthNext ==
    \/ Uploads(CredInputs, { <<"x", ".txt">> }, {"text/plain"}, AuthDocs, {"utf-8"},
               { Id("a", "a") })
    \/ Syntheses(CredInputs, AuthTTSRequests, {"ok"})
    \/ Batches(CredInputs, AuthBatchRequests)
    \/ BatchSteps({"ok"})
    \/ Zips(CredInputs, AuthZipRequests)
    \/ Downloads(CredInputs, { OutputId(1) })
    \/ SendFile
    \/ StaticOutputs(CredInputs, { OutputId(1) })
    \/ FileDeletions(CredInputs, { Id("a", "a") })
    \/ OutputDeletions(CredInputs, { OutputId(1) })
    \/ Listings(CredInputs)
    \/ FileContents(CredInputs, { Id("a", "a") })

AuthSpec == Init /\ [][AuthNext]_vars

\* --- Retention: files of both directories age and are swept, on servers in
\* and out of UTC, with and without OS errors, while outputs are downloaded
\* and deleted.
UtcOffsets == {-1, 0, 1}
SweepDocs == { [size |-> max_text_length, kind |-> "utf8"] }
SweepTTSRequests == { [text |-> <<"h">>, voice |-> PlainVoice] }
SweepOutputIds == { OutputId(1), OutputId(2) }

SweepInit == \E offset \in UtcOffsets : Started(offset)

SweepNext ==
    \/ Uploads({GoodCredentials}, { <<"x", ".txt">> }, {"text/plain"}, SweepDocs, {"utf-8"},
               { Id("a", "a") })
    \/ Syntheses({GoodCredentials}, SweepTTSRequests, {"ok"})
    \/ Downloads({GoodCredentials}, SweepOutputIds)
    \/ SendFile
    \/ OutputDeletions({GoodCredentials}, SweepOutputIds)
    \/ Sweeps(TRUE, {FALSE})
    \/ Tick

SweepSpec == SweepInit /\ [][SweepNext]_vars

\* --- Validation: uploads of every size and declared type, synthesis and
\* batch requests with valid and invalid fields, within and beyond the rate
\* limits.
ValNames == { << >>, <<"x", ".txt">>, <<"x", ".TXT">>, <<"x", ".exe">> }
ValTypes == {"", "text/plain", "application/octet-stream"}
ValDocs == [size : {max_text_length, max_file_size, max_file_size + 1}, kind : {"utf8"}]
ValIds == { Id("a", "a") }
ValTTSRequests ==
    [text : { << >>, <<"h">> }, voice : { PlainVoice, <<"en", " ", "US">> },
     rate : { <<"+", "5", "%">>, <<"5", "%">> }]
ValBatchRequests ==
    [file_ids : { << >>, <<Id("a", "a")>>, <<Id("b", "b")>>, << <<"z">> >> },
     voice : { PlainVoice, << >> },
     pitch : { <<"-", "5", "Hz">>, <<"-", "5", "%">> }]

ValidationNext ==
    \/ Uploads({GoodCredentials}, ValNames, ValTypes, ValDocs, {"utf-8"}, ValIds)
    \/ Syntheses({GoodCredentials}, ValTTSRequests, {"ok"})
    \/ Batches({GoodCredentials}, ValBatchRequests)
    \/ BatchSteps({"ok"})
    \/ Zips({GoodCredentials}, AuthZipRequests)
    \/ WindowExpires

ValidationSpec == Init /\ [][ValidationNext]_vars

\* --- Synthesis texts: empty, blank, short, of the maximum length and longer,
\* with and without markup characters.
TextSpecTexts == TextInputs \cup { <<" ", " ", " ", " ">>, <<"h", "h", "h", "h">>,
                                  <<"&", "h", "'">>, <<">", "\"">> }
TextSpecRequests == [text : TextSpecTexts, voice : { PlainVoice }]

TextNext ==
    \/ Syntheses({GoodCredentials}, TextSpecRequests, {"ok"})
    \/ OutputDeletions({GoodCredentials}, OutputIds)
    \/ WindowExpires

TextSpec == Init /\ [][TextNext]_vars

\* --- Shutdown: the sweeper task sweeps, sleeps and backs off while outputs
\* are made and age; lifespan cancels it.  The event loop runs a task that is
\* ready: the cancelled sweeper, and lifespan once the sweeper has ended.
ShutdownNext ==
    \/ Syntheses({GoodCredentials}, SweepTTSRequests, {"ok"})
    \/ Tick
    \/ Sweeps(TRUE, BOOLEAN)
    \/ Shutdown
    \/ TaskCancelled
    \/ ShutdownCompletes

ShutdownSpec ==
    Init /\ [][ShutdownNext]_vars /\ WF_vars(TaskCancelled) /\ WF_vars(ShutdownCompletes)

\* --- safe_file_read called on its own, as test_safe_file_read does: a file
\* of any length up to MaxChars, readable as UTF-8 or not, and any max_size up
\* to MaxSize.
MaxChars == 10
MaxSize == 8
ReadCalls ==
    { [NoRead EXCEPT !.pc = "called", !.chars = c, !.utf8ok = u, !.max_size = m] :
        c \in 0..MaxChars, u \in BOOLEAN, m \in 0..MaxSize }

ReadInit == \E call \in ReadCalls : StartedReading(0, call)

\* content = await safe_file_read(path, max_size=m)
SafeFileRead ==
    /\ read.pc = "called"
    /\ LET r == safe_file_read([chars |-> read.chars, utf8ok |-> read.utf8ok, mtime |-> now],
                               read.max_size) IN
         read' = [read EXCEPT !.pc = IF r.status = 200 THEN "returned" ELSE "raised",
                              !.status = r.status, !.len = r.len]
    /\ UNCHANGED << store, bp, engineLog, hits, issued, now, resp, dl, task, local_offset >>

ReadNext == SafeFileRead

ReadSpec == ReadInit /\ [][ReadNext]_vars

\* --- Encodings: uploads of every kind of bytes, empty ones included, under
\* every label chardet can give them; the normalized files are read back.
EncodingDocs == [size : {0, max_text_length}, kind : DocKinds]
EncodingIds == { Id("a", "a"), Id("a", "b") }

EncodingNext ==
    \/ Uploads({GoodCredentials}, { <<"x", ".txt">> }, {"text/plain"}, EncodingDocs, Labels,
               EncodingIds)
    \/ FileContents({GoodCredentials}, EncodingIds)
    \/ FileDeletions({GoodCredentials}, EncodingIds)
    \/ WindowExpires

EncodingSpec == Init /\ [][EncodingNext]_vars

\* --- Records: every operation that writes a table or removes a file.
RecordIds == { Id("a", "a") }
RecordOutputIds == { OutputId(1), OutputId(2) }
RecordTTSRequests == [text : { <<"h">> }, voice : { PlainVoice }]
RecordBatchRequests == [file_ids : { <<Id("a", "a")>> }, voice : { PlainVoice }]

RecordNext ==
    \/ Uploads({GoodCredentials}, { <<"x", ".txt">> }, {"text/plain"}, SweepDocs, {"utf-8"},
               RecordIds)
    \/ FileDeletions({GoodCredentials}, RecordIds)
    \/ Syntheses({GoodCredentials}, RecordTTSRequests, {"ok", "fail"})
    \/ OutputDeletions({GoodCredentials}, RecordOutputIds)
    \/ Batches({GoodCredentials}, RecordBatchRequests)
    \/ BatchSteps({"ok", "fail"})
    \/ Sweeps(FALSE, {FALSE})
    \/ Tick

RecordSpec == Init /\ [][RecordNext]_vars

\* --- File names: uploads and synthesis requests whose names hold path
\* separators, blanks, markup, a newline, dots and letters beyond ASCII, and
\* names longer than the greatest length a synthesis request keeps.
NameInputs == { << >>, <<"..", "/", "x">>, <<"x", " ", "<", ".txt">>,
                <<"eacute", "\n", ".txt">>, <<"..", "\\", "..", "/", "x">> }
NameTTSRequests == [text : { <<"h">> }, voice : { PlainVoice }, filename : NameInputs]
NameBatchRequests == [file_ids : { <<Id("a", "a")>>, <<Id("a", "b")>> }, voice : { PlainVoice }]

NameNext ==
    \/ Uploads({GoodCredentials}, NameInputs, {"text/plain"}, SweepDocs, {"utf-8"},
               {Id("a", "a")})
    \/ Syntheses({GoodCredentials}, NameTTSRequests, {"ok"})
    \/ Batches({GoodCredentials}, NameBatchRequests)
    \/ BatchSteps({"ok"})
    \/ WindowExpires

NameSpec == Init /\ [][NameNext]_vars

\* --- Identifier lists: batch and archive requests whose lists are empty, of
\* the greatest length allowed and one longer, and whose items are ids of
\* stored and of missing files, hyphens only, an id followed by a newline,
\* and a short string.
IdInputs == { Id("a", "a"), Id("b", "b"), Id("-", "-"), Id("a", "a") \o <<"\n">>, <<"z">> }
Repeat(x, n) == [i \in 1..n |-> x]
IdLists(id, max) ==
    { << >>, Repeat(id, max), Repeat(id, max + 1) }
    \cup { <<i>> : i \in IdInputs } \cup { <<Id("a", "a"), i>> : i \in IdInputs }
IdBatchRequests == [file_ids : IdLists(Id("b", "b"), max_batch_items), voice : { PlainVoice }]
IdZipRequests == [file_ids : IdLists(OutputId(1), max_zip_items)]

IdNext ==
    \/ Uploads({GoodCredentials}, StoreNames, {"text/plain"}, SweepDocs, {"utf-8"},
               BatchUploadIds)
    \/ Batches({GoodCredentials}, IdBatchRequests)
    \/ BatchSteps({"ok"})
    \/ Zips({GoodCredentials}, IdZipRequests)
    \/ FileDeletions({GoodCredentials}, BatchUploadIds)
    \/ WindowExpires

IdSpec == Init /\ [][IdNext]_vars

\* --- Prosody and voice: synthesis and batch requests whose rate, volume,
\* pitch and voice are of every shape: well formed, without sign, digits or
\* unit, with the wrong unit, with a blank, empty, and ending in a newline.
RateInputs == { <<"+", "5", "%">>, <<"-", "5", "0", "%">>, <<"5", "%">>, <<"+", "%">>,
                <<"+", "5">>, <<"+", "5", "Hz">>, <<"+", "5", "%", "\n">> }
PitchInputs == { <<"-", "5", "Hz">>, <<"-", "5", "%">>, <<"-", "5", "Hz", "\n">> }
ProsodyVoices == VoiceInputs \cup { <<"en", "-", "US", "\n">> }
ProsodyTTSRequests ==
    [text : { <<"h">> }, voice : ProsodyVoices, rate : RateInputs,
     volume : { <<"+", "0", "%">>, <<"0">> }, pitch : PitchInputs]
ProsodyBatchRequests ==
    [file_ids : { <<Id("a", "a")>> }, voice : { PlainVoice, <<"en", "-", "US", "\n">> },
     rate : { <<"+", "5", "%">>, <<"5", "%">> },
     volume : { <<"+", "0", "%">> }, pitch : PitchInputs]

ProsodyNext ==
    \/ Uploads({GoodCredentials}, { <<"x", ".txt">> }, {"text/plain"}, SweepDocs, {"utf-8"},
               { Id("a", "a") })
    \/ Syntheses({GoodCredentials}, ProsodyTTSRequests, {"ok"})
    \/ Batches({GoodCredentials}, ProsodyBatchRequests)
    \/ BatchSteps({"ok"})
    \/ OutputDeletions({GoodCredentials}, { OutputId(1) })
    \/ WindowExpires

ProsodySpec == Init /\ [][ProsodyNext]_vars

\* --- Rate limits: two peers, one of them also with a wrong password, on the
\* three limited routes, with bodies that pass and that fail validation.
RateCreds == { GoodCredentials, From("10.0.0.2", GoodCredentials),
               Credentials("admin", "guess") }
RateBatchRequests == { [file_ids |-> <<Id("b", "b")>>, voice |-> PlainVoice],
                       [file_ids |-> << <<"z">> >>, voice |-> PlainVoice] }

RateNext ==
    \/ Uploads(RateCreds, { <<"x", ".txt">> }, {"text/plain"}, AuthDocs, {"utf-8"},
               { Id("a", "a") })
    \/ Syntheses(RateCreds, AuthTTSRequests, {"ok"})
    \/ Batches(RateCreds, RateBatchRequests)
    \/ WindowExpires

RateSpec == Init /\ [][RateNext]_vars

\* --- The sweeper's loop: the same steps, with the timer of asyncio.sleep
\* firing (the sleeping task becomes ready and runs its next turn).
SweeperSpec ==
    /\ Init /\ [][ShutdownNext]_vars
    /\ WF_vars(Sweeps(TRUE, BOOLEAN))
    /\ WF_vars(TaskCancelled) /\ WF_vars(ShutdownCompletes)

(***************************************************************************)
(* Properties                                                              *)
(***************************************************************************)
\* the GenerationRecords tagged with batch id b
BatchRecords(b) == { o \in DOMAIN tts_generations : tts_generations[o].batch_id = b }

\* the calls of the engine made for batch b, in order
CallsOf(b) == LET ForBatch(e) == e.bid = b IN SelectSeq(engineLog, ForBatch)

\* the output ids the engine wrote for batch b
OutputsOf(b) == { CallsOf(b)[j].oid : j \in { j \in 1..Len(CallsOf(b)) : CallsOf(b)[j].ok } }

\* the last response is that of a batch request whose handler ran
BatchReturned == resp.op = "batch" /\ resp.bid # 0

\* C1: a batch whose k-th id is the first without a stored normalized upload
\* returns 404 and leaves exactly k-1 GenerationRecords with its batch id.
C1_MissingIdKeepsPrefixRecords ==
    (BatchReturned /\ resp.detail = "missing")
        => (resp.status = 404 /\ Cardinality(BatchRecords(resp.bid)) = resp.k - 1)

\* C2: when the synthesis of the k-th item fails, the batch returns an error
\* and each item completed before it keeps its GenerationRecord and its
\* output file.
C2_EngineFailureKeepsPrefix ==
    (BatchReturned /\ resp.detail = "engine")
        => /\ resp.status >= 400
           /\ \A o \in OutputsOf(resp.bid) :
                 o \in DOMAIN tts_generations /\ o \in DOMAIN output_dir

\* every id of the list has a file matching <id>_utf8_* in the upload store
AllStored(file_ids) ==
    \A i \in 1..Len(file_ids) : Glob(Utf8Pattern(file_ids[i])) # {}

\* ... and every such file is UTF-8 text of at most max_text_length characters
AllReadable(file_ids) ==
    \A i \in 1..Len(file_ids) :
       /\ Glob(Utf8Pattern(file_ids[i])) # {}
       /\ \A f \in Glob(Utf8Pattern(file_ids[i])) :
             upload_dir[f].utf8ok /\ upload_dir[f].chars <= max_text_length

NoEngineFailure(b) == \A j \in 1..Len(CallsOf(b)) : CallsOf(b)[j].ok

\* the batch of the last response ended with N records, N outputs, completed
BatchComplete ==
    LET N == Len(resp.file_ids) IN
    /\ resp.status = 200
    /\ Cardinality(BatchRecords(resp.bid)) = N
    /\ \A o \in BatchRecords(resp.bid) : tts_generations[o].is_batch
    /\ BatchRecords(resp.bid) = OutputsOf(resp.bid)
    /\ OutputsOf(resp.bid) \subseteq DOMAIN output_dir
    /\ batch_processes[resp.bid].is_completed
    /\ batch_processes[resp.bid].file_count = N

BatchesStarted == 1..issued.batches

\* the engine call that a step adds to the log
NewCall == engineLog'[Len(engineLog')]

\* C4 (state part): the engine calls of a batch are made for items 1, 2, ...
\* of its file_ids, in that order and for those ids, a failed call is the
\* last call of its batch, and a batch that failed at item k made no call and
\* wrote no output for an item after k.
C4_CallsInOrder ==
    /\ \A b \in BatchesStarted :
          \A j \in 1..Len(CallsOf(b)) :
             /\ CallsOf(b)[j].i = j
             /\ ~CallsOf(b)[j].ok => j = Len(CallsOf(b))
             /\ (bp.bid = b) => CallsOf(b)[j].fid = bp.file_ids[j]
             /\ (BatchReturned /\ resp.bid = b) => CallsOf(b)[j].fid = resp.file_ids[j]
    /\ (BatchReturned /\ resp.status # 200) =>
          /\ Len(CallsOf(resp.bid)) <= resp.k
          /\ resp.detail # "engine" => Len(CallsOf(resp.bid)) = resp.k - 1
    /\ \A o \in DOMAIN output_dir : \E j \in 1..Len(engineLog) : engineLog[j].oid = o

\* C4 (step part): the engine is only called for the current item of the
\* batch in flight (or for a /tts request), and an output file only appears
\* with such a call; so a batch that has returned starts no further call.
C4_CallsOnlyForCurrentItem ==
    /\ engineLog' # engineLog =>
          /\ engineLog' = Append(engineLog, NewCall)
          /\ \/ NewCall.bid = 0
             \/ /\ bp.pc = "synth" /\ NewCall.bid = bp.bid /\ NewCall.i = bp.i
                /\ NewCall.fid = bp.file_ids[bp.i]
    /\ \A o \in DOMAIN output_dir' \ DOMAIN output_dir :
          engineLog' # engineLog /\ NewCall.oid = o

\* C4: within one batch the files are synthesized in the order of file_ids,
\* and once an item has failed no synthesis is started and no output file is
\* created for a later item.
C4_SequentialAbortAtFirstFailure ==
    []C4_CallsInOrder /\ [][C4_CallsOnlyForCurrentItem]_vars

C4_Witness ==
    /\ BatchReturned /\ resp.status # 200 /\ resp.k = 2
    /\ Len(resp.file_ids) = 3 /\ AllStored(resp.file_ids)
    /\ Len(CallsOf(resp.bid)) = 2

\* C5: a BatchRecord is completed only if the GenerationRecords with its
\* batch id are as many as its fileCount, and a batch call that failed leaves
\* its BatchRecord, created at the start, not completed.
C5_CompletedOnlyWhenAllRecorded ==
    /\ \A b \in DOMAIN batch_processes :
          batch_processes[b].is_completed
            => Cardinality(BatchRecords(b)) = batch_processes[b].file_count
    /\ \A b \in BatchesStarted : b \in DOMAIN batch_processes
    /\ (BatchReturned /\ resp.status # 200) => ~batch_processes[resp.bid].is_completed

C5_Witness ==
    /\ BatchReturned /\ resp.status # 200 /\ resp.k = 2
    /\ ~batch_processes[resp.bid].is_completed
    /\ OutputsOf(resp.bid) # {}

ProtectedOps == {"upload", "tts", "batch", "create_zip", "download", "delete_file",
                 "delete_output", "uploads", "file_content"}

\* C6: a request to a protected route without credentials, or with a wrong
\* username or password, is answered 401, whatever its body, and changes
\* neither the stores nor the limiter's counts nor anything else.
C6_Unauthenticated401NoEffect ==
    [][ (resp'.op \in ProtectedOps /\ resp'.cred # GoodCredentials)
          => (resp'.status = 401 /\ UNCHANGED << store, bp, engineLog, hits, issued >>) ]_vars

C6_Witness ==
    /\ resp.op = "batch" /\ resp.status = 401 /\ ~resp.wellformed
    /\ resp.cred = Credentials("admin", "guess")
    /\ DOMAIN upload_dir # {}

\* C7: every UploadRecord with deleted=false has its raw file and its
\* normalized file in the upload store.
C7_LiveUploadHasBothFiles ==
    \A id \in DOMAIN file_uploads :
       ~file_uploads[id].is_deleted
         => /\ RawName(id, file_uploads[id].filename) \in DOMAIN upload_dir
            /\ Utf8Name(id, file_uploads[id].filename) \in DOMAIN upload_dir

\* C8: every GenerationRecord with deleted=false has its audio file in the
\* output store (a removal of the file sets the flag).
C8_LiveGenerationHasFile ==
    \A o \in DOMAIN tts_generations :
       ~tts_generations[o].is_deleted => o \in DOMAIN output_dir

\* C9: when an upload returns 200 the raw and the normalized file of the
\* returned id are in the upload store, its UploadRecord exists, and the
\* normalized file is valid UTF-8.
C9_UploadOkStoresUtf8 ==
    (resp.op = "upload" /\ resp.status = 200)
      => /\ resp.fid \in DOMAIN file_uploads
         /\ LET name == file_uploads[resp.fid].filename IN
            /\ RawName(resp.fid, name) \in DOMAIN upload_dir
            /\ Utf8Name(resp.fid, name) \in DOMAIN upload_dir
            /\ upload_dir[Utf8Name(resp.fid, name)].utf8ok

\* C10 (state part): every GenerationRecord belongs to an engine call that
\* succeeded.
C10_RecordsOnlyOfSuccessfulCalls ==
    \A o \in DOMAIN tts_generations :
       \E j \in 1..Len(engineLog) : engineLog[j].oid = o /\ engineLog[j].ok

\* C10 (step part): a /tts request whose engine call fails returns a 5xx
\* error, leaves the GenerationRecords as they were, and called the engine
\* once.
C10_FailedCallLeavesNoRecord ==
    (engineLog' # engineLog /\ NewCall.bid = 0 /\ ~NewCall.ok)
      => /\ resp'.op = "tts" /\ resp'.status >= 500 /\ resp'.oid = NewCall.oid
         /\ tts_generations' = tts_generations
         /\ NewCall.oid \notin DOMAIN tts_generations'
         /\ engineLog' = Append(engineLog, NewCall)

\* C10: a /tts request creates its GenerationRecord only after the engine
\* call has succeeded; a failed call gives a 5xx error, no record, no retry.
C10_TtsRecordOnlyAfterSuccess ==
    []C10_RecordsOnlyOfSuccessfulCalls /\ [][C10_FailedCallLeavesNoRecord]_vars

C10_Witness ==
    /\ resp.op = "tts" /\ resp.status = 500
    /\ DOMAIN tts_generations # {}

\* the files of either directory that a sweep should remove and that remain
\* after the step
Unswept(bad) ==
    { f \in DOMAIN upload_dir' : Expired(upload_dir'[f]) /\ Fault("upload", f) # bad }
    \cup { o \in DOMAIN output_dir' : Expired(output_dir'[o]) /\ Fault("output", o) # bad }

\* C11: a sweep in which the stat or the removal of one file fails still
\* removes every other file that is older than the threshold.
C11_SweepSkipsFailedFile ==
    [][ \A fault \in SweepFaults :
          periodic_cleanup(fault.bad, fault.before, FALSE) => Unswept(fault.bad) = {} ]_vars

\* the age of a file: the clock minus its modification time
Age(file) == now - file.mtime

\* C12: a sweep (that meets no OS error) removes exactly the files whose age
\* is greater than the maximum age: those files are gone and no other is.
C12_SweepRemovesExactlyTheOld ==
    [][ periodic_cleanup(NoFault, {}, FALSE)
          => /\ DOMAIN upload_dir' = { f \in DOMAIN upload_dir : Age(upload_dir[f]) <= max_file_age }
             /\ DOMAIN output_dir' = { o \in DOMAIN output_dir : Age(output_dir[o]) <= max_file_age } ]_vars

\* C19: a download whose file is gone when it is answered, whether it never
\* existed or was removed while the download was in flight, is answered 404.
C19_RacingDownloadIsNotFound ==
    (resp.op = "download" /\ resp.status # 0 /\ resp.oid \notin DOMAIN output_dir)
        => resp.status = 404

\* C13 (the calls): DELETE /output/{id} for an id whose file exists gives 200,
\* removes the file and flags the record if there is one; for an id whose
\* file does not exist it gives 404 and changes nothing.
C13_DeleteThenNotFound ==
    \A o \in OutputIds :
       delete_output(GoodCredentials, o)
         => IF o \in DOMAIN output_dir
            THEN /\ resp'.status = 200
                 /\ o \notin DOMAIN output_dir'
                 /\ o \in DOMAIN tts_generations' => tts_generations'[o].is_deleted
            ELSE resp'.status = 404 /\ UNCHANGED store

\* C13 (between the calls): the file of an output that was deleted does not
\* come back, and its record stays flagged.
C13_DeletedStaysDeleted ==
    \A o \in DOMAIN tts_generations :
       tts_generations[o].is_deleted
         => o \notin DOMAIN output_dir' /\ tts_generations'[o].is_deleted

\* C13: of two successive DELETE /output/{id} calls for an existing output the
\* first gives 200 and the second 404; after the first the file is absent and
\* the record, if any, is flagged deleted.
C13_DeleteOutputTwice ==
    [][ /\ C13_DeleteThenNotFound
        /\ C13_DeletedStaysDeleted
        /\ (resp.op = "delete_output" /\ resp.status = 200)
             => (delete_output(GoodCredentials, resp.oid) => resp'.status = 404) ]_vars

C13_Witness ==
    /\ resp.op = "delete_output" /\ resp.status = 404
    /\ resp.oid \in DOMAIN tts_generations
    /\ tts_generations[resp.oid].is_deleted

\* C14 as stated: an authenticated upload longer than the maximum is always
\* answered 413 and writes no file and no record.
C14_TooLargeIs413 ==
    [][ \A n \in ValNames, c \in ValTypes, d \in ValDocs, id \in ValIds :
          (d.size > max_file_size /\ upload_file(GoodCredentials, n, c, d, "utf-8", id))
            => (resp'.status = 413 /\ UNCHANGED store) ]_vars

\* C14, amended: such an upload is answered 413, or 429 when the route's
\* rate limit is used up, and in both cases writes no file and no record; an
\* upload of exactly the maximum length is not answered 413.
C14_TooLargeIs413UnlessLimited ==
    [][ \A n \in ValNames, c \in ValTypes, d \in ValDocs, id \in ValIds :
          upload_file(GoodCredentials, n, c, d, "utf-8", id)
            => /\ d.size > max_file_size
                    => /\ resp'.status = IF Limited("upload", GoodCredentials.host, upload_rate_limit) THEN 429 ELSE 413
                       /\ UNCHANGED << store, issued >>
               /\ d.size <= max_file_size => resp'.status # 413 ]_vars

C14_Witness ==
    /\ resp.op = "upload" /\ resp.status = 413
    /\ DOMAIN upload_dir # {}

\* a response that refuses a request for its size, its type or its fields
ValidationRejected(r) ==
    \/ r.op = "upload" /\ r.status \in {413, 400} /\ r.fid = NoId
    \/ r.op \in {"tts", "batch", "create_zip"} /\ r.status = 422

\* C15: a request refused by validation (upload size or type, synthesis text,
\* prosody, voice, file-id list) leaves the file store and the record store
\* as they were, starts no batch, calls no engine and takes no id.
C15_RejectedBeforeSideEffects ==
    [][ ValidationRejected(resp') => UNCHANGED << store, bp, engineLog, issued >> ]_vars

C15_Witness ==
    /\ resp.op = "upload" /\ resp.status = 400 /\ resp.fid = NoId
    /\ DOMAIN file_uploads # {}

\* C16: an upload (within the size and rate limits) is refused for its type
\* exactly when its declared media type and its extension are both outside
\* their allow-lists.
C16_RejectedIffNeitherAllowed ==
    [][ \A n \in ValNames, c \in ValTypes, d \in ValDocs, id \in ValIds :
          ( /\ upload_file(GoodCredentials, n, c, d, "utf-8", id)
            /\ ~Limited("upload", GoodCredentials.host, upload_rate_limit)
            /\ d.size <= max_file_size )
            => ( resp'.status = 400
                   <=> (c \notin allowed_types /\ Suffix(n) \notin allowed_extensions) ) ]_vars

\* C17: a synthesis text that is empty or only whitespace, or longer than
\* max_text_length, is refused with 422 and nothing is stored; a text of
\* exactly max_text_length characters that is not blank passes validation.
C17_TextLengthBounds ==
    [][ \A req \in TextSpecRequests :
          text_to_speech(GoodCredentials, req, "ok")
            => /\ (Strip(req.text) = << >> \/ Len(req.text) > max_text_length)
                    => (resp'.status = 422 /\ UNCHANGED store)
               /\ (Strip(req.text) # << >> /\ Len(req.text) = max_text_length)
                    => resp'.status # 422 ]_vars

C17_Witness ==
    /\ resp.op = "tts" /\ resp.status = 200
    /\ tts_generations[resp.oid].text_length = max_text_length

\* C18: an authenticated batch request (within the rate limit) whose first
\* id names no stored upload is answered 404.
C18_MissingIdIsNotFound ==
    [][ \A req \in BatchSpecRequests :
          ( /\ batch_process(GoodCredentials, req)
            /\ ~Limited("batch", GoodCredentials.host, batch_rate_limit)
            /\ req.file_ids # << >>
            /\ Glob(Utf8Pattern(req.file_ids[1])) = {} )
            => resp'.status = 404 ]_vars

\* C20 (safety): once the task has been cancelled no sweep runs.
C20_NoSweepAfterCancel == task.cancel => resp'.op # "sweep"

\* C20 (liveness): once lifespan has cancelled the task and awaits it, the
\* task leaves its loop and the shutdown completes.
C20_ShutdownEnds ==
    (task.lifespan = "awaiting")
        ~> (task.lifespan = "stopped" /\ task.pc \in {"returned", "cancelled"})

\* C20: cancelled in its sleep or in its back-off, the sweeper task leaves its
\* loop, starts no sweep after the cancellation, and shutdown completes.
C20_CancelEndsSweeper == [][C20_NoSweepAfterCancel]_vars /\ C20_ShutdownEnds

C20_Witness ==
    /\ task.lifespan = "stopped" /\ task.pc = "cancelled"
    /\ DOMAIN output_dir # {}

\* C21 (safety): a turn of the loop, whether the sweep met an OS error or an
\* exception left the try body, leaves the task in its loop, asleep.
C21_SweepKeepsLoop ==
    \A fault \in SweepFaults, raised \in BOOLEAN :
       periodic_cleanup(fault.bad, fault.before, raised)
         => task'.pc = (IF raised THEN "backoff" ELSE "sleep") /\ ~task'.cancel

\* C21 (liveness): unless the task is cancelled, again and again the step
\* last taken is a sweep that left the task in its loop.
C21_AnotherSweepFollows ==
    []<>(resp.op = "sweep" /\ task.pc \in {"sleep", "backoff"}) \/ <>task.cancel

\* C21: the sweeper is a perpetual loop of sleep and sweep: until it is
\* cancelled, after every sweep, including one that raised an error, another
\* sweep eventually runs; a failing sweep never ends the loop.
C21_SweeperLoopsForever == [][C21_SweepKeepsLoop]_vars /\ C21_AnotherSweepFollows

C21_Witness ==
    /\ resp.op = "sweep" /\ resp.detail = "error"
    /\ task.pc = "backoff" /\ ~task.cancel
    /\ DOMAIN output_dir # {}

\* C22: every error response (401, 404, 413, 422, 429, 500) carries an error
\* classification and a timestamp, and a 500 does not contain the text of the
\* exception it was made from.
C22_ErrorsClassifiedAndGeneric ==
    resp.status >= 400
      => /\ {"error_code", "timestamp"} \subseteq ErrorBody(resp).keys
         /\ resp.status = 500 => ~ErrorBody(resp).exception_text

\* @limiter.limit(settings.<route>_rate_limit)
RateLimitOf(route) ==
    CASE route = "upload" -> upload_rate_limit
      [] route = "tts" -> tts_rate_limit
      [] route = "batch" -> batch_rate_limit

\* the route of response r has counted its limit of requests from r's peer
WindowFull(r) == hits[r.op][r.cred.host] >= RateLimitOf(r.op)

\* C23 as stated: a request to a limited route from a peer whose window for
\* that route is full is answered 429 and changes no file and no record.
C23_FullWindowIs429 ==
    [][ (resp'.op \in Routes /\ WindowFull(resp'))
          => (resp'.status = 429 /\ UNCHANGED store) ]_vars

\* C23, amended (the answer): a request with valid credentials and a
\* well-formed body is answered 429 exactly when the window of its route is
\* full for its peer, and then changes nothing; a request with a full window
\* that is not answered 429 is answered 401 or 422 and changes nothing either.
C23_LimitedExactlyWhenFull ==
    resp'.op \in Routes =>
      LET full == WindowFull(resp') IN
      /\ (Authenticated(resp'.cred) /\ resp'.wellformed) => (resp'.status = 429 <=> full)
      /\ resp'.status = 429 => UNCHANGED << store, bp, engineLog, issued, hits >>
      /\ (full /\ resp'.status # 429)
            => (resp'.status \in {401, 422} /\ UNCHANGED << store, bp, engineLog, issued, hits >>)

\* C23, amended (the counts): a count changes only by a request to its route
\* from its peer that passed authentication and validation and was not
\* limited, by one, or when the window ends; no other count changes with it.
C23_CountsOnlyOwnKey ==
    \A r \in Routes, h \in Hosts :
       hits'[r][h] # hits[r][h]
         => \/ hits' = [q \in Routes |-> [g \in Hosts |-> 0]]
            \/ /\ resp'.op = r /\ resp'.cred.host = h
               /\ Authenticated(resp'.cred) /\ resp'.wellformed
               /\ resp'.status \notin {401, 422, 429}
               /\ hits' = [hits EXCEPT ![r][h] = @ + 1]

\* C23, amended: rate limits are per route and per peer address and count the
\* requests that reach the handler.
C23_PerRoutePerClient == [][C23_LimitedExactlyWhenFull /\ C23_CountsOnlyOwnKey]_vars

C23_Witness ==
    /\ resp.op = "upload" /\ resp.status = 429 /\ resp.cred.host = "10.0.0.1"
    /\ hits["upload"]["10.0.0.2"] = 1
    /\ hits["tts"]["10.0.0.1"] = 1
    /\ hits["batch"]["10.0.0.1"] = batch_rate_limit
    /\ DOMAIN upload_dir # {}

\* a sign, one or more digits, the unit, and nothing else
StrictProsody(v, unit) ==
    /\ Len(v) >= 3
    /\ v[1] \in {"+", "-"}
    /\ \A i \in 2..(Len(v) - 1) : v[i] \in {"0", "5"}
    /\ v[Len(v)] = unit

\* not empty, and only letters, digits, hyphen and underscore
StrictVoice(v) == v # << >> /\ \A i \in 1..Len(v) : v[i] \in {"en", "US", "-", "_"}

StrictFields(req) ==
    /\ StrictProsody(req.rate, "%") /\ StrictProsody(req.volume, "%")
    /\ StrictProsody(req.pitch, "Hz") /\ StrictVoice(req.voice)

\* C24: a synthesis or batch request passes validation only if rate and
\* volume are a sign, digits and '%', pitch is a sign, digits and 'Hz', and
\* voice is non-empty and made of letters, digits, hyphen and underscore; any
\* other value is answered 422 and no synthesis is attempted.
C24_OnlyStrictFieldsPass ==
    [][ /\ \A req \in ProsodyTTSRequests :
             (text_to_speech(GoodCredentials, req, "ok") /\ ~StrictFields(req))
               => (resp'.status = 422 /\ UNCHANGED << engineLog, store >>)
        /\ \A req \in ProsodyBatchRequests :
             (batch_process(GoodCredentials, req) /\ ~StrictFields(req))
               => (resp'.status = 422 /\ UNCHANGED << engineLog, store, bp >>) ]_vars

\* an id of the form uuid4 produces (scaled: IdLen hexadecimal digits)
AllocatedShape(id) ==
    Len(id) = IdLen /\ \A i \in 1..Len(id) : id[i] \in IdChars \ {"-"}

\* a list of 1 to max ids of that form
ListOk(v, max) ==
    Len(v) >= 1 /\ Len(v) <= max /\ \A i \in 1..Len(v) : AllocatedShape(v[i])

\* C25: a batch request passes validation only if its list has 1 to 50 items,
\* a create-zip request only if its list has 1 to 100 items, and every item
\* is an id of the allocated form; any other list is answered 422 before any
\* file is looked up.
C25_OnlyAllocatedIdsPass ==
    [][ /\ \A req \in IdBatchRequests :
             (batch_process(GoodCredentials, req) /\ ~ListOk(req.file_ids, 50))
               => (resp'.status = 422 /\ UNCHANGED << store, bp, engineLog, issued >>)
        /\ \A info \in IdZipRequests :
             (create_zip(GoodCredentials, info) /\ ~ListOk(info.file_ids, 100))
               => resp'.status = 422 ]_vars

\* the characters of a submitted text that are not markup
NonMarkupCount(t) == Cardinality({ i \in 1..Len(t) : t[i] \notin {"<", ">", "\"", "'", "&"} })

\* C26 (the engine): the text handed to the engine by a /tts request contains
\* none of the characters < > " ' &.
C26_EngineTextHasNoMarkup ==
    \A j \in 1..Len(engineLog) : engineLog[j].bid = 0 => engineLog[j].markup = << >>

\* C26 (the record): the text_length of an accepted /tts request counts no
\* markup character: it is at most the number of other characters of the
\* submitted text, and exactly that number when the text has no blank.
C26_LengthCountsNoMarkup ==
    \A req \in TextSpecRequests :
       (text_to_speech(GoodCredentials, req, "ok") /\ resp'.status = 200)
         => /\ tts_generations'[resp'.oid].text_length <= NonMarkupCount(req.text)
            /\ (\A i \in 1..Len(req.text) : req.text[i] # " ")
                  => tts_generations'[resp'.oid].text_length = NonMarkupCount(req.text)

\* C26: for every accepted /tts request the text handed to the engine and
\* counted in text_length contains none of the characters < > " ' &.
C26_MarkupStrippedBeforeUse ==
    []C26_EngineTextHasNoMarkup /\ [][C26_LengthCountsNoMarkup]_vars

C26_Witness ==
    /\ resp.op = "tts" /\ resp.status = 200
    /\ tts_generations[resp.oid].text_length = 0
    /\ Len(engineLog) >= 2

\* characters that are neither word characters nor hyphen, underscore or dot
NotNameChars == {"/", "\\", " ", "<", ">", "\n"}

\* a name made of word characters, hyphen, underscore and dot only
CleanName(name) == \A i \in 1..Len(name) : name[i] \notin NotNameChars

\* name with each character outside that set replaced by an underscore
Underscored(name) ==
    [i \in 1..Len(name) |-> IF name[i] \in NotNameChars THEN "_" ELSE name[i]]

\* C27 (the stores): every file name of the upload store, every filename of
\* an UploadRecord and every original_name of a GenerationRecord is made of
\* word characters, hyphen, underscore and dot only.
C27_StoredNamesAreClean ==
    /\ \A f \in DOMAIN upload_dir : CleanName(f)
    /\ \A id \in DOMAIN file_uploads : CleanName(file_uploads[id].filename)
    /\ \A o \in DOMAIN tts_generations : CleanName(tts_generations[o].original_name)

\* C27 (the replacement): the stored name of an accepted upload, and the
\* filename kept of an accepted /tts request whose name is not cut for its
\* length, is the submitted name with every other character replaced by an
\* underscore.
C27_OthersBecomeUnderscore ==
    /\ \A n \in NameInputs \ {<< >>}, id \in {Id("a", "a")} :
          ( /\ upload_file(GoodCredentials, n, "text/plain", CHOOSE d \in SweepDocs : TRUE,
                            "utf-8", id)
            /\ resp'.status = 200 )
            => /\ file_uploads'[id].filename = Underscored(n)
               /\ (id \o <<"_">> \o Underscored(n)) \in DOMAIN upload_dir'
               /\ (id \o <<"_", "utf8", "_">> \o Underscored(n)) \in DOMAIN upload_dir'
    /\ \A req \in NameTTSRequests :
          ( /\ text_to_speech(GoodCredentials, req, "ok") /\ resp'.status = 200
            /\ req.filename # << >> /\ Len(req.filename) <= max_filename_length )
            => tts_generations'[resp'.oid].original_name = Underscored(req.filename)

\* C27: every file name derived from user input consists only of word
\* characters, hyphen, underscore and dot after sanitization; every other
\* character is replaced by an underscore.
C27_NamesSanitized == []C27_StoredNamesAreClean /\ [][C27_OthersBecomeUnderscore]_vars

C27_Witness ==
    /\ \E id \in DOMAIN file_uploads :
          file_uploads[id].filename = <<"..", "_", "..", "_", "x">>
    /\ \E o \in DOMAIN tts_generations :
          tts_generations[o].original_name = <<"..", "_", "..", ".txt">>

\* C28: safe_file_read returns the whole content of a file of at most
\* max_size characters, raises 413 for a longer one, and never returns a
\* truncated content.
C28_ReadIsCompleteOr413 ==
    (read.pc \in {"returned", "raised"} /\ read.utf8ok)
      => /\ read.chars <= read.max_size => (read.status = 200 /\ read.len = read.chars)
         /\ read.chars > read.max_size => read.status = 413
         /\ read.status = 200 => read.len = read.chars

\* the labels that name UTF-8, in any case
Utf8Labels == {"utf-8", "UTF-8"}

\* C29: an upload that reaches the normalization and whose label is UTF-8 in
\* any case is stored with a normalized file that is a copy of the upload;
\* under any other label the bytes are decoded and re-encoded, so that the
\* normalized file is valid UTF-8, and when the bytes cannot be decoded with
\* the label the upload is answered 400 and no UploadRecord is created.  The
\* confidence plays no part.
C29_CopyOrDecodeOr400 ==
    \A doc \in EncodingDocs, label \in Labels, id \in EncodingIds :
      LET name == <<"x", ".txt">>
          utf8_path == id \o <<"_", "utf8", "_">> \o name
          decodes == \/ label = "ISO-8859-1"
                     \/ label = "UTF-8-SIG" /\ doc.kind = "utf8"
      IN  ( /\ upload_file(GoodCredentials, name, "text/plain", doc, label, id)
            /\ resp'.status \notin {401, 413, 429} )
          => IF label \in Utf8Labels
             THEN /\ resp'.status = 200
                  /\ id \in DOMAIN file_uploads'
                  /\ upload_dir'[utf8_path].chars = doc.size
                  /\ upload_dir'[utf8_path].utf8ok = (doc.kind = "utf8")
             ELSE IF decodes
             THEN /\ resp'.status = 200
                  /\ id \in DOMAIN file_uploads'
                  /\ upload_dir'[utf8_path].utf8ok
             ELSE /\ resp'.status = 400
                  /\ id \notin DOMAIN file_uploads'

C29_NormalizationAsStated == [][C29_CopyOrDecodeOr400]_vars

\* new is old with at most its flag raised
OnlyFlagRaised(old, new) ==
    /\ [new EXCEPT !.is_deleted = old.is_deleted] = old
    /\ old.is_deleted => new.is_deleted

\* every record of the table is still there after the step
Kept(table, table_after) ==
    \A k \in DOMAIN table :
      k \in DOMAIN table_after /\ OnlyFlagRaised(table[k], table_after[k])

\* C30: no step removes an UploadRecord or a GenerationRecord; the only field
\* of a record that changes after its creation is is_deleted, and it only
\* changes from false to true.
C30_RecordsAppendOnly ==
    [][Kept(file_uploads, file_uploads') /\ Kept(tts_generations, tts_generations')]_vars

\* a sweep has run while a deleted UploadRecord, a deleted GenerationRecord
\* and a GenerationRecord of a batch were present
C30_Witness ==
    /\ resp.op = "sweep"
    /\ \E id \in DOMAIN file_uploads : file_uploads[id].is_deleted
    /\ \E o \in DOMAIN tts_generations : tts_generations[o].is_deleted
    /\ \E o \in DOMAIN tts_generations : tts_generations[o].is_batch

\* C31: a sweep changes only files.  It leaves the three tables as they
\* were, it writes and adds no file, and whether it removes a file depends
\* on the file's modification time alone: every file it removes is older
\* than the maximum age, whether or not a record names the file and whatever
\* that record's flag is, and a sweep that meets no error removes every such
\* file.
C31_SweepStep ==
    \A fault \in SweepFaults, raised \in BOOLEAN :
      periodic_cleanup(fault.bad, fault.before, raised)
        => /\ file_uploads' = file_uploads
           /\ tts_generations' = tts_generations
           /\ batch_processes' = batch_processes
           /\ DOMAIN upload_dir' \subseteq DOMAIN upload_dir
           /\ DOMAIN output_dir' \subseteq DOMAIN output_dir
           /\ \A f \in DOMAIN upload_dir' : upload_dir'[f] = upload_dir[f]
           /\ \A o \in DOMAIN output_dir' : output_dir'[o] = output_dir[o]
           /\ \A f \in DOMAIN upload_dir \ DOMAIN upload_dir' :
                 now - (upload_dir[f].mtime + local_offset) > max_file_age
           /\ \A o \in DOMAIN output_dir \ DOMAIN output_dir' :
                 now - (output_dir[o].mtime + local_offset) > max_file_age
           /\ fault.bad = NoFault =>
                 /\ \A f \in DOMAIN upload_dir' :
                       now - (upload_dir[f].mtime + local_offset) <= max_file_age
                 /\ \A o \in DOMAIN output_dir' :
                       now - (output_dir[o].mtime + local_offset) <= max_file_age

C31_SweepChangesOnlyFiles == [][C31_SweepStep]_vars

\* a sweep has just removed the files of an upload and of an output whose
\* records are unflagged, and kept a newer output, beside a BatchRecord
C31_Witness ==
    /\ resp.op = "sweep"
    /\ \E id \in DOMAIN file_uploads :
          ~file_uploads[id].is_deleted /\ Glob(id) = {}
    /\ \E o \in DOMAIN tts_generations :
          ~tts_generations[o].is_deleted /\ o \notin DOMAIN output_dir
    /\ DOMAIN output_dir # {}
    /\ DOMAIN batch_processes # {}

\* C32: after an upload request that did not return 200 the upload store
\* holds no file carrying the id of that request and the record store no
\* UploadRecord for it.
C32_FailedUploadLeavesNothing ==
    (resp.op = "upload" /\ resp.status # 200 /\ resp.fid # NoId)
      => /\ \A f \in DOMAIN upload_dir : ~IsPrefix(resp.fid \o <<"_">>, f)
         /\ resp.fid \notin DOMAIN file_uploads

\* C33: DELETE /file/{file_id} removes only files that carry the id
\* file_id of an upload, changes no record but that upload's, and answers
\* 404 and changes nothing when no upload has the id file_id.
C33_DeleteStep ==
    \A file_id \in PathIds :
      delete_file(GoodCredentials, file_id)
        => /\ \A f \in DOMAIN upload_dir \ DOMAIN upload_dir' :
                 file_id \in issued.ids /\ IsPrefix(file_id \o <<"_">>, f)
           /\ \A id \in DOMAIN file_uploads \ {file_id} :
                 id \in DOMAIN file_uploads' /\ file_uploads'[id] = file_uploads[id]
           /\ file_id \notin issued.ids
                 => /\ resp'.status = 404
                    /\ upload_dir' = upload_dir
                    /\ file_uploads' = file_uploads

C33_DeleteTouchesOnlyItsUpload == [][C33_DeleteStep]_vars

\* C34: for every upload whose normalized file is stored, the files whose
\* name begins with <id>_utf8_ are exactly that one normalized file; the raw
\* file is never among them.
C34_LookupFindsOnlyNormalized ==
    \A id \in DOMAIN file_uploads :
      LET normalized == id \o <<"_", "utf8", "_">> \o file_uploads[id].filename
          raw == id \o <<"_">> \o file_uploads[id].filename
      IN  normalized \in DOMAIN upload_dir
            => /\ { f \in DOMAIN upload_dir : IsPrefix(id \o <<"_", "utf8", "_">>, f) }
                    = { normalized }
               /\ ~IsPrefix(id \o <<"_", "utf8", "_">>, raw)

\* C35: whenever no batch is in flight, every audio file of the output
\* store has a GenerationRecord whose output_id is the id of the file.
C35_EveryOutputHasRecord ==
    bp.pc = "idle" => \A o \in DOMAIN output_dir : o \in DOMAIN tts_generations

\* C36: for every /tts request that passes validation and reaches the engine,
\* the submitted text holds a character that is neither one of the markup
\* characters nor a blank, so that what remains of it after the markup and
\* the surrounding blanks are removed is not empty; the text_length recorded
\* for it, which is the length of the text given to the engine, is at least 1.
C36_AcceptedStep ==
    \A req \in TextSpecRequests :
      ( /\ text_to_speech(GoodCredentials, req, "ok")
        /\ resp'.status \notin {401, 422, 429} )
        => /\ \E i \in 1..Len(req.text) : req.text[i] \notin {"<", ">", "\"", "'", "&", " "}
           /\ resp'.status = 200 => tts_generations'[resp'.oid].text_length >= 1

C36_EngineTextNotEmpty == [][C36_AcceptedStep]_vars

\* C37: the bytes of an output file are returned (status 200 of the download
\* route or of the /outputs path) only to a request that carries the
\* configured username and password.
C37_AudioOnlyToAuthenticated ==
    (resp.op \in {"download", "outputs"} /\ resp.status = 200)
      => /\ resp.cred.present
         /\ resp.cred.username = auth_username
         /\ resp.cred.password = auth_password

\* C38: when the file that a batch in flight has found for its current item
\* has been removed before the handler's next step, that step ends the batch
\* with 404, not with 500, and the engine is called for no further item.
C38_RemovedFileStep ==
    (bp.pc = "read" /\ bp.file \notin DOMAIN upload_dir /\ bp' # bp)
      => /\ resp'.op = "batch"
         /\ resp'.status = 404
         /\ bp'.pc = "idle"
         /\ engineLog' = engineLog

C38_RemovalDuringBatchIsNotFound == [][C38_RemovedFileStep]_vars

====
